---- MODULE Spec2Model ----
(***************************************************************************)
(* MirrorNet: the application layout (session guard and notification       *)
(* badges), user provisioning (createNewUserData) and the circle detail    *)
(* page (member removal, family-goal dialog), as state machines over the   *)
(* document store.                                                         *)
(***************************************************************************)
EXTENDS Naturals, Sequences, FiniteSets

\* ------------------------------------------------------------------ bounds
MaxInFlight == 2   \* notification fetch cycles in flight at once
MaxInvites == 2    \* invite documents in the store
MaxDocs == 1       \* reveal-request / family-goal documents per user
MaxGoals == 2      \* family goals sent from the circle page

\* ------------------------------------------------------------------ values
None == "none"
Users == {"u1", "u2"}
Paths == {"/dashboard", "/invites"}
InviteIds == 1 .. MaxInvites
InviteStatuses == {"pending", "accepted", "declined"}
CircleRefs == {None, "c1"}
Emails == {"a@x.com", "b@x.com"}

\* The value useUser() hands to the layout: no user, or the user document.
NoUser == [id |-> None, isPremium |-> FALSE]
UserVals == {NoUser} \cup [id : Users, isPremium : BOOLEAN]

\* createNewUserData before any call: no argument, nothing staged, no document.
NoFbUser == [uid |-> None, email |-> None]
EmptyBatch == [user |-> FALSE, circles |-> << >>, invites |-> {}]
NoUserDoc == [profile |-> FALSE, stripeId |-> FALSE]

\* A FamilyGoal as sendFamilyGoal writes it.
PendingGoal(from, to, trait) ==
  [fromUserId |-> from, toUserId |-> to, trait |-> trait, status |-> "pending"]

VARIABLES
  user, loading, pathname,            \* useUser(), usePathname()
  inviteCount, revealRequestCount, goalSuggestionCount,   \* useState
  cycles,                             \* fetchNotifications calls in flight, oldest first
  pushed,                             \* last router.push target
  signingOut,                         \* handleLogout is suspended at await signOut(auth)
  invites, revealRequests, familyGoals, users, circles,   \* the document store
  fbUser, pc, batch,                  \* createNewUserData: argument, position, write batch
  memberToRemove,                     \* circle page: member awaiting the remove confirmation
  isOpen, targetUser,                 \* circle page: goal dialog props
  selectedTrait, isSubmitting,        \* GoalDialog useState
  onSendArg,                          \* the trait handed to an onSend call in flight
  lastOp                              \* the operation that produced this state

vars ==
  << user, loading, pathname, inviteCount, revealRequestCount, goalSuggestionCount,
     cycles, pushed, signingOut, invites, revealRequests, familyGoals, users, circles,
     fbUser, pc, batch, memberToRemove, isOpen, targetUser, selectedTrait,
     isSubmitting, onSendArg, lastOp >>

layoutState == << user, loading, pathname, inviteCount, revealRequestCount,
                  goalSuggestionCount, cycles, pushed, signingOut >>
storeState == << invites, revealRequests, familyGoals, users, circles >>
provisionState == << fbUser, pc, batch >>
pageState == << memberToRemove, isOpen, targetUser, selectedTrait, isSubmitting, onSendArg >>

Op(name, uid, n) == [op |-> name, uid |-> uid, n |-> n]

\* ------------------------------------------------------------------ data access
\* getReceivedInvitesForUser(userId): the invites addressed to the user, in document order.
getReceivedInvitesForUser(store, uid) ==
  LET Ids == {i \in DOMAIN store : store[i].toUserId = uid}
      RECURSIVE Build(_)
      Build(i) == IF i > Len(store) THEN << >>
                  ELSE IF i \in Ids THEN << store[i] >> \o Build(i + 1) ELSE Build(i + 1)
  IN Build(1)

\* getRevealRequestsForUser(userId) and getFamilyGoalsForUser(userId): only the
\* length of the returned list is read by the layout.
getRevealRequestsForUser(store, uid) == store[uid]
getFamilyGoalsForUser(store, uid) ==
  Len(SelectSeq(store, LAMBDA g : g.toUserId = uid /\ g.status = "pending"))

\* ------------------------------------------------------------------ layout
\* The filter without its circleId test.
actionableInvitesAnyCircle(receivedInvites) ==
  SelectSeq(receivedInvites, LAMBDA invite : invite.status = "pending")

\* receivedInvites.filter(invite => !!invite.circleId && invite.status === 'pending')
actionableInvites(receivedInvites) ==
  SelectSeq(receivedInvites, LAMBDA invite : invite.circleId # None /\ invite.status = "pending")

Slots == {"receivedInvites", "revealRequests", "familyGoals"}

\* The Promise.all of fetchNotifications at the moment it is created.
NewCycle(u) ==
  [ uid |-> u.id, isPremium |-> u.isPremium,
    pending |-> IF u.isPremium THEN Slots ELSE Slots \ {"revealRequests"},
    receivedInvites |-> << >>, revealRequests |-> 0, familyGoals |-> 0 ]

RemoveAt(s, i) == [j \in 1 .. (Len(s) - 1) |-> IF j < i THEN s[j] ELSE s[j + 1]]

\* The fetch effect with a cleanup that abandons the cycles still in flight.
FetchEffectAbortOlder(u, cs) == IF u # NoUser THEN << NewCycle(u) >> ELSE cs

\* useEffect(..., [user, pathname]): if (user) fetchNotifications()
FetchEffect(u, cs) == IF u # NoUser THEN Append(cs, NewCycle(u)) ELSE cs

\* The guard with the negation of loading dropped.
GuardEffectWhileLoading(u, l, p) == IF l /\ u = NoUser THEN "/login" ELSE p

\* useEffect(..., [user, loading, router]): if (!loading && !user) router.push('/login')
GuardEffect(u, l, p) == IF ~l /\ u = NoUser THEN "/login" ELSE p

\* useUser() delivers a new (user, loading) pair; both effects re-run on the change.
UserChange(u, l) ==
  /\ << u, l >> # << user, loading >>
  /\ Len(cycles) < MaxInFlight
  /\ user' = u
  /\ loading' = l
  /\ cycles' = IF u # user THEN FetchEffect(u, cycles) ELSE cycles
  /\ pushed' = GuardEffect(u, l, pushed)
  /\ lastOp' = Op("UserChange", u.id, 0)
  /\ UNCHANGED << pathname, inviteCount, revealRequestCount, goalSuggestionCount, storeState,
                  provisionState, pageState, signingOut >>

\* usePathname() changes: the fetch effect re-runs.
Navigate(p) ==
  /\ p # pathname
  /\ Len(cycles) < MaxInFlight
  /\ pathname' = p
  /\ cycles' = FetchEffect(user, cycles)
  /\ lastOp' = Op("Navigate", None, 0)
  /\ UNCHANGED << user, loading, inviteCount, revealRequestCount, goalSuggestionCount,
                  pushed, storeState, provisionState, pageState, signingOut >>

\* What fetch k of a cycle resolves with.
FetchResult(c, k) ==
  CASE k = "receivedInvites" -> getReceivedInvitesForUser(invites, c.uid)
    [] k = "revealRequests" -> getRevealRequestsForUser(revealRequests, c.uid)
    [] k = "familyGoals" -> getFamilyGoalsForUser(familyGoals, c.uid)

\* The order in which the continuations of fetchNotifications run: 1 when cycle i
\* completes ahead of an older cycle still in flight, 2 when the oldest cycle
\* completes next after such a completion, 3 otherwise.
CompletionOrder(i) ==
  IF i > 1 THEN 1
  ELSE IF lastOp.op = "Complete" /\ lastOp.n = 1 THEN 2 ELSE 3

\* One fetch of cycle i resolves; when it is the last one, Promise.all resolves and
\* the continuation of fetchNotifications sets the three counts.
FetchOk(i, k) ==
  /\ i \in 1 .. Len(cycles)
  /\ k \in cycles[i].pending
  /\ LET c == [cycles[i] EXCEPT ![k] = FetchResult(cycles[i], k), !.pending = @ \ {k}]
     IN IF c.pending = {}
        THEN /\ inviteCount' = Len(actionableInvites(c.receivedInvites))
             /\ revealRequestCount' = c.revealRequests
             /\ goalSuggestionCount' = c.familyGoals
             /\ cycles' = RemoveAt(cycles, i)
             /\ lastOp' = Op("Complete", c.uid, CompletionOrder(i))
        ELSE /\ cycles' = [cycles EXCEPT ![i] = c]
             /\ lastOp' = Op("FetchOk", c.uid, 0)
             /\ UNCHANGED << inviteCount, revealRequestCount, goalSuggestionCount >>
  /\ UNCHANGED << user, loading, pathname, pushed, storeState, provisionState, pageState, signingOut >>

\* A rejection treated as an empty result (Promise.allSettled in place of
\* Promise.all): when the other fetches have resolved the setters still run.
FetchFailSettled(i, k) ==
  /\ i \in 1 .. Len(cycles)
  /\ k \in cycles[i].pending
  /\ LET c == [cycles[i] EXCEPT !.pending = @ \ {k}]
     IN IF c.pending = {}
        THEN /\ inviteCount' = Len(actionableInvites(c.receivedInvites))
             /\ revealRequestCount' = c.revealRequests
             /\ goalSuggestionCount' = c.familyGoals
             /\ cycles' = RemoveAt(cycles, i)
        ELSE /\ cycles' = [cycles EXCEPT ![i] = c]
             /\ UNCHANGED << inviteCount, revealRequestCount, goalSuggestionCount >>
  /\ lastOp' = Op("FetchFail", cycles[i].uid, 3 - Cardinality(cycles[i].pending))
  /\ UNCHANGED << user, loading, pathname, pushed, storeState, provisionState, pageState, signingOut >>

\* One fetch of cycle i rejects: Promise.all rejects, fetchNotifications throws at
\* its await and never reaches the setters.
FetchFail(i, k) ==
  /\ i \in 1 .. Len(cycles)
  /\ k \in cycles[i].pending
  /\ cycles' = RemoveAt(cycles, i)
  /\ lastOp' = Op("FetchFail", cycles[i].uid, 3 - Cardinality(cycles[i].pending))
  /\ UNCHANGED << user, loading, pathname, pushed, storeState, provisionState, pageState, signingOut,
                  inviteCount, revealRequestCount, goalSuggestionCount >>

\* The avatar menu is rendered only past `if (loading || !user)`; Log out calls
\* handleLogout, which suspends at await signOut(auth).
HandleLogout ==
  /\ ~loading
  /\ user # NoUser
  /\ ~signingOut
  /\ signingOut' = TRUE
  /\ lastOp' = Op("handleLogout", user.id, 0)
  /\ UNCHANGED << user, loading, pathname, inviteCount, revealRequestCount,
                  goalSuggestionCount, cycles, pushed, storeState, provisionState, pageState >>

\* signOut resolves and handleLogout continues: router.push("/"). The layout
\* learns of the sign-out through useUser(), before or after this step.
SignOutDone ==
  /\ signingOut
  /\ signingOut' = FALSE
  /\ pushed' = "/"
  /\ lastOp' = Op("signOutDone", user.id, 0)
  /\ UNCHANGED << user, loading, pathname, inviteCount, revealRequestCount,
                  goalSuggestionCount, cycles, storeState, provisionState, pageState >>

\* signOut rejects: handleLogout throws before its router.push.
SignOutFail ==
  /\ signingOut
  /\ signingOut' = FALSE
  /\ lastOp' = Op("signOutFail", user.id, 0)
  /\ UNCHANGED << user, loading, pathname, inviteCount, revealRequestCount,
                  goalSuggestionCount, cycles, pushed, storeState, provisionState, pageState >>

\* ------------------------------------------------------------------ provisioning
\* defaultCircles: one entry per circle kind (Circle.name).
defaultCircles == << "Friends", "Family", "Work", "General" >>

\* createNewUserData skipping step 3 (pending invites never processed).
CreateBeginSkipInvites ==
  /\ pc = "idle"
  /\ fbUser # NoFbUser
  /\ batch' = [ user |-> TRUE,
                circles |-> [n \in 1 .. Len(defaultCircles) |->
                               [ name |-> defaultCircles[n], ownerId |-> fbUser.uid,
                                 memberIds |-> << fbUser.uid >> ]],
                invites |-> {} ]
  /\ pc' = "commit"
  /\ lastOp' = Op("CreateBegin", fbUser.uid, 0)
  /\ UNCHANGED << layoutState, storeState, pageState, fbUser >>

\* createNewUserData up to its first await: writeBatch, batch.set of the user
\* document (merge) and of one circle per default circle, then step 3 if the
\* identity has an email, else straight to the commit.
CreateBegin ==
  /\ pc = "idle"
  /\ fbUser # NoFbUser
  /\ batch' = [ user |-> TRUE,
                circles |-> [n \in 1 .. Len(defaultCircles) |->
                               [ name |-> defaultCircles[n], ownerId |-> fbUser.uid,
                                 memberIds |-> << fbUser.uid >> ]],
                invites |-> {} ]
  /\ pc' = IF fbUser.email # None THEN "processInvites" ELSE "commit"
  /\ lastOp' = Op("CreateBegin", fbUser.uid, 0)
  /\ UNCHANGED << layoutState, storeState, pageState, fbUser >>

\* The invites processInvitesForNewUser finds: pending and addressed to the email.
PendingInvitesFor(email) ==
  {i \in InviteIds : invites[i].toEmail = email /\ invites[i].status = "pending"}

\* Invites ids rewritten to reference the new user id.
RewriteInvites(store, ids, uid) ==
  [i \in DOMAIN store |-> IF i \in ids THEN [store[i] EXCEPT !.toUserId = uid] ELSE store[i]]

\* await processInvitesForNewUser(batch, uid, email) returns: the rewrites are
\* either staged in the batch it is handed or written at once, before the commit.
ProcessInvitesOk(staged) ==
  /\ pc = "processInvites"
  /\ IF staged
     THEN /\ batch' = [batch EXCEPT !.invites = PendingInvitesFor(fbUser.email)]
          /\ UNCHANGED invites
     ELSE /\ invites' = RewriteInvites(invites, PendingInvitesFor(fbUser.email), fbUser.uid)
          /\ UNCHANGED batch
  /\ pc' = "commit"
  /\ lastOp' = Op("ProcessInvitesOk", fbUser.uid, Cardinality(PendingInvitesFor(fbUser.email)))
  /\ UNCHANGED << layoutState, revealRequests, familyGoals, users, circles, pageState, fbUser >>

\* await processInvitesForNewUser(...) rejects: nothing catches it, so
\* createNewUserData rejects before batch.commit().
ProcessInvitesFail ==
  /\ pc = "processInvites"
  /\ pc' = "threw"
  /\ lastOp' = Op("ProcessInvitesFail", fbUser.uid, 0)
  /\ UNCHANGED << layoutState, storeState, pageState, fbUser, batch >>

\* A commit that applies the user document and then fails.
CommitUserOnly ==
  /\ pc = "commit"
  /\ users' = [users EXCEPT ![fbUser.uid].profile = TRUE]
  /\ pc' = "threw"
  /\ lastOp' = Op("Commit", fbUser.uid, 0)
  /\ UNCHANGED << layoutState, invites, circles, revealRequests, familyGoals, pageState,
                  fbUser, batch >>

\* await batch.commit() succeeds: every write of the batch is applied at once.
\* The user document is merged, so a stripeId already there is kept.
Commit ==
  /\ pc = "commit"
  /\ users' = [users EXCEPT ![fbUser.uid].profile = TRUE]
  /\ circles' = circles \o batch.circles
  /\ invites' = RewriteInvites(invites, batch.invites, fbUser.uid)
  /\ pc' = "done"
  /\ lastOp' = Op("Commit", fbUser.uid, Len(batch.circles))
  /\ UNCHANGED << layoutState, revealRequests, familyGoals, pageState, fbUser, batch >>

\* await batch.commit() rejects: no write of the batch is applied.
CommitFail ==
  /\ pc = "commit"
  /\ pc' = "threw"
  /\ lastOp' = Op("CommitFail", fbUser.uid, 0)
  /\ UNCHANGED << layoutState, storeState, pageState, fbUser, batch >>

\* The client goes away while createNewUserData is suspended at an await.
Crash ==
  /\ pc \in {"processInvites", "commit"}
  /\ pc' = "crashed"
  /\ lastOp' = Op("Crash", fbUser.uid, 0)
  /\ UNCHANGED << layoutState, storeState, pageState, fbUser, batch >>

\* The Cloud Function that creates the Stripe customer writes stripeId into the
\* user document, before or after the batch.
StripeFunction ==
  /\ fbUser # NoFbUser
  /\ ~users[fbUser.uid].stripeId
  /\ users' = [users EXCEPT ![fbUser.uid].stripeId = TRUE]
  /\ lastOp' = Op("StripeFunction", fbUser.uid, 0)
  /\ UNCHANGED << layoutState, invites, circles, revealRequests, familyGoals, pageState,
                  provisionState >>

\* ------------------------------------------------------------------ circle page
\* export const familyGoalTraits
familyGoalTraits == {"Patience", "Better Listening", "Being Present", "Showing Appreciation"}

Members(circle) == {circle.memberIds[n] : n \in 1 .. Len(circle.memberIds)}

\* MemberListItem: const isCurrentUser = member.id === currentUserId
isCurrentUser(member, currentUserId) == member = currentUserId

\* MemberListItem: const isCircleOwner = circle.ownerId === currentUserId
isCircleOwner(circle, currentUserId) == circle.ownerId = currentUserId

\* The Remove button rendered on every row but the viewer's own.
RemoveOfferedToAnyone(circle, member, currentUserId) == ~isCurrentUser(member, currentUserId)

\* MemberListItem: {!isCurrentUser && ( ... {isCircleOwner && (<Button ... Remove>)} )}
RemoveOffered(circle, member, currentUserId) ==
  ~isCurrentUser(member, currentUserId) /\ isCircleOwner(circle, currentUserId)

\* MemberListItem: {!isCurrentUser && ( ... {circle.name === "Family" &&
\* currentUser?.isPremium && (<Button ... Suggest Goal>)} )}
SuggestGoalOffered(circle, member, currentUserId, currentUser) ==
  /\ ~isCurrentUser(member, currentUserId)
  /\ circle.name = "Family"
  /\ currentUser.isPremium

\* removeUserFromCircle: arrayRemove of the member id.
removeUserFromCircle(circle, member) ==
  [circle EXCEPT !.memberIds = SelectSeq(@, LAMBDA id : id # member)]

\* The page shows circles[1] to the signed-in user.
ThisCircle == circles[1]

\* Click on a row's Remove button: onRemove(member) opens the confirmation.
ClickRemove(m) ==
  /\ m \in Members(ThisCircle)
  /\ RemoveOffered(ThisCircle, m, user.id)
  /\ memberToRemove = None
  /\ ~isOpen
  /\ memberToRemove' = m
  /\ lastOp' = Op("ClickRemove", m, 0)
  /\ UNCHANGED << layoutState, storeState, provisionState, isOpen, targetUser,
                  selectedTrait, isSubmitting, onSendArg >>

\* The confirmation is accepted: the member id is removed from the circle document.
ConfirmRemove ==
  /\ memberToRemove # None
  /\ circles' = [circles EXCEPT ![1] = removeUserFromCircle(@, memberToRemove)]
  /\ memberToRemove' = None
  /\ lastOp' = Op("ConfirmRemove", memberToRemove, 0)
  /\ UNCHANGED << layoutState, invites, revealRequests, familyGoals, users, provisionState,
                  isOpen, targetUser, selectedTrait, isSubmitting, onSendArg >>

\* The confirmation is dismissed.
CancelRemove ==
  /\ memberToRemove # None
  /\ memberToRemove' = None
  /\ lastOp' = Op("CancelRemove", memberToRemove, 0)
  /\ UNCHANGED << layoutState, storeState, provisionState, isOpen, targetUser,
                  selectedTrait, isSubmitting, onSendArg >>

\* Click on a row's Suggest Goal button: onSuggestGoal(member) opens the dialog.
SuggestGoal(m) ==
  /\ m \in Members(ThisCircle)
  /\ SuggestGoalOffered(ThisCircle, m, user.id, user)
  /\ memberToRemove = None
  /\ ~isOpen
  /\ isOpen' = TRUE
  /\ targetUser' = m
  /\ lastOp' = Op("SuggestGoal", m, 0)
  /\ UNCHANGED << layoutState, storeState, provisionState, memberToRemove,
                  selectedTrait, isSubmitting, onSendArg >>

\* GoalDialog: the Select reports a trait.
SelectTrait(t) ==
  /\ isOpen
  /\ t # selectedTrait
  /\ selectedTrait' = t
  /\ lastOp' = Op("SelectTrait", t, 0)
  /\ UNCHANGED << layoutState, storeState, provisionState, memberToRemove, isOpen,
                  targetUser, isSubmitting, onSendArg >>

\* GoalDialog: <Dialog open={isOpen} onOpenChange={setIsOpen}> reports a close
\* (cancel, escape, click outside).
CloseDialog ==
  /\ isOpen
  /\ isOpen' = FALSE
  /\ lastOp' = Op("CloseDialog", selectedTrait, 0)
  /\ UNCHANGED << layoutState, storeState, provisionState, memberToRemove,
                  targetUser, selectedTrait, isSubmitting, onSendArg >>

\* handleSend without its first line.
HandleSendUnguarded ==
  /\ isOpen
  /\ ~isSubmitting
  /\ Len(familyGoals) < MaxGoals
  /\ isSubmitting' = TRUE
  /\ onSendArg' = selectedTrait
  /\ lastOp' = Op("handleSend", selectedTrait, 1)
  /\ UNCHANGED << layoutState, storeState, provisionState, memberToRemove, isOpen,
                  targetUser, selectedTrait >>

\* GoalDialog.handleSend up to its await: if (!selectedTrait) return;
\* setIsSubmitting(true); onSend(selectedTrait)
HandleSend ==
  /\ isOpen
  /\ ~isSubmitting
  /\ Len(familyGoals) < MaxGoals
  /\ IF selectedTrait = ""
     THEN /\ lastOp' = Op("handleSend", "", 0)
          /\ UNCHANGED << isSubmitting, onSendArg >>
     ELSE /\ isSubmitting' = TRUE
          /\ onSendArg' = selectedTrait
          /\ lastOp' = Op("handleSend", selectedTrait, 1)
  /\ UNCHANGED << layoutState, storeState, provisionState, memberToRemove, isOpen,
                  targetUser, selectedTrait >>

\* onSend resolves after sendFamilyGoal wrote the pending goal; handleSend
\* continues: setIsSubmitting(false); setIsOpen(false)
OnSendDone ==
  /\ isSubmitting
  /\ familyGoals' = Append(familyGoals, PendingGoal(user.id, targetUser, onSendArg))
  /\ isSubmitting' = FALSE
  /\ isOpen' = FALSE
  /\ onSendArg' = ""
  /\ lastOp' = Op("onSendDone", onSendArg, 0)
  /\ UNCHANGED << layoutState, invites, revealRequests, users, circles, provisionState,
                  memberToRemove, targetUser, selectedTrait >>

\* ------------------------------------------------------------------ initial states
\* createNewUserData has not been called.
InitNoProvision ==
  /\ fbUser = NoFbUser
  /\ pc = "idle"
  /\ batch = EmptyBatch
  /\ users = [u \in Users |-> NoUserDoc]

\* The circle page is not mounted.
InitNoPage ==
  /\ memberToRemove = None
  /\ isOpen = FALSE
  /\ targetUser = None
  /\ selectedTrait = ""
  /\ isSubmitting = FALSE
  /\ onSendArg = ""

\* The layout is not mounted.
InitNoLayout ==
  /\ user = NoUser
  /\ loading = TRUE
  /\ cycles = << >>

InitLayoutState ==
  /\ pathname = "/dashboard"
  /\ inviteCount = 0
  /\ revealRequestCount = 0
  /\ goalSuggestionCount = 0
  /\ pushed = None
  /\ signingOut = FALSE
  /\ lastOp = Op("Init", None, 0)

LayoutInvites == [toUserId : Users, toEmail : {None}, circleId : CircleRefs, status : InviteStatuses]

\* The store of the specification's end-to-end example: u1 has pending invites of
\* which the second carries no circleId, reveal requests and a goal suggestion.
ExampleInvite(i) ==
  [ toUserId |-> IF i <= 2 THEN "u1" ELSE "u2", toEmail |-> None,
    circleId |-> IF i = 2 THEN None ELSE "c1", status |-> "pending" ]

\* The layout mounts while useUser() is still resolving the session.
Init ==
  /\ InitLayoutState
  /\ user = NoUser
  /\ loading = TRUE
  /\ cycles = << >>
  /\ invites = [i \in InviteIds |-> ExampleInvite(i)]
  /\ revealRequests = [u \in Users |-> IF u = "u1" THEN MaxDocs ELSE 0]
  /\ familyGoals = [n \in 1 .. MaxDocs |-> PendingGoal("u2", "u1", "Patience")]
  /\ circles = << >>
  /\ InitNoProvision
  /\ InitNoPage

Next ==
  \/ \E u \in UserVals, l \in BOOLEAN : UserChange(u, l)
  \/ \E p \in Paths : Navigate(p)
  \/ \E i \in 1 .. MaxInFlight, k \in Slots : FetchOk(i, k)
  \/ \E i \in 1 .. MaxInFlight, k \in Slots : FetchFail(i, k)

Spec == Init /\ [][Next]_vars

\* The layout with its avatar menu: the fetch cycles settle oldest first.
NextSession ==
  \/ \E u \in UserVals, l \in BOOLEAN : UserChange(u, l)
  \/ \E k \in Slots : FetchOk(1, k)
  \/ \E k \in Slots : FetchFail(1, k)
  \/ HandleLogout
  \/ SignOutDone
  \/ SignOutFail

SpecSession == Init /\ [][NextSession]_vars

\* The layout mounts with the session already resolved to a signed-in user, over
\* any store: the fetch effect has run once.
InitInvites ==
  /\ InitLayoutState
  /\ user \in UserVals \ {NoUser}
  /\ loading = FALSE
  /\ cycles = FetchEffect(user, << >>)
  /\ invites \in [InviteIds -> LayoutInvites]
  /\ revealRequests = [u \in Users |-> MaxDocs]
  /\ familyGoals = [n \in 1 .. MaxDocs |-> PendingGoal("u2", "u1", "Patience")]
  /\ circles = << >>
  /\ InitNoProvision
  /\ InitNoPage

\* A navigation made once the previous cycle has settled.
SettledNavigate(p) == cycles = << >> /\ Navigate(p)

NextInvites ==
  \/ \E p \in Paths : SettledNavigate(p)
  \/ \E k \in Slots : FetchOk(1, k)
  \/ \E k \in Slots : FetchFail(1, k)

SpecInvites == InitInvites /\ [][NextInvites]_vars

ProvisionInvites ==
  [toUserId : {None}, toEmail : Emails, circleId : CircleRefs, status : InviteStatuses]

\* A fresh identity u1 (with or without an email) signs up over a store that holds
\* u2, u2's circle and invites addressed by email.
InitProvision ==
  /\ InitLayoutState
  /\ InitNoLayout
  /\ InitNoPage
  /\ fbUser \in [uid : {"u1"}, email : {None, "a@x.com"}]
  /\ pc = "idle"
  /\ batch = EmptyBatch
  /\ users = [u \in Users |-> IF u = "u2" THEN [profile |-> TRUE, stripeId |-> TRUE]
                                          ELSE NoUserDoc]
  /\ circles = << [name |-> "Friends", ownerId |-> "u2", memberIds |-> << "u2" >>] >>
  /\ invites \in [InviteIds -> ProvisionInvites]
  /\ revealRequests = [u \in Users |-> 0]
  /\ familyGoals = << >>

NextProvision ==
  \/ CreateBegin
  \/ \E staged \in BOOLEAN : ProcessInvitesOk(staged)
  \/ ProcessInvitesFail
  \/ Commit
  \/ CommitFail
  \/ Crash
  \/ StripeFunction

SpecProvision == InitProvision /\ [][NextProvision]_vars

\* The circle page shows a circle owned by u1 to a signed-in member.
InitCircle ==
  /\ InitLayoutState
  /\ InitNoProvision
  /\ InitNoPage
  /\ user \in [id : {"u1", "u2"}, isPremium : BOOLEAN]
  /\ loading = FALSE
  /\ cycles = << >>
  /\ \E kind \in {"Family", "Friends"} :
       circles = << [name |-> kind, ownerId |-> "u1", memberIds |-> << "u1", "u2", "u3" >>] >>
  /\ invites = [i \in InviteIds |-> ExampleInvite(i)]
  /\ revealRequests = [u \in Users |-> 0]
  /\ familyGoals = << >>

NextCircle ==
  \/ \E m \in {"u1", "u2", "u3"} : ClickRemove(m)
  \/ ConfirmRemove
  \/ CancelRemove
  \/ \E m \in {"u1", "u2", "u3"} : SuggestGoal(m)
  \/ \E t \in familyGoalTraits : SelectTrait(t)
  \/ CloseDialog
  \/ HandleSend
  \/ OnSendDone

SpecCircle == InitCircle /\ [][NextCircle]_vars

\* onSend is a store write that is answered.
SpecCircleFair == SpecCircle /\ WF_vars(OnSendDone)

\* ------------------------------------------------------------------ layout claims
SignedIn == user # NoUser

\* C1: for a non-premium signed-in user revealRequestCount is 0 in every reachable
\* state of the layout.
C1_NonPremiumRevealCountZero ==
  (SignedIn /\ ~user.isPremium) => revealRequestCount = 0

\* The invites of the store that count for user uid: addressed to uid, carrying a
\* circleId, and pending.
CountingInvites(uid) ==
  {i \in InviteIds : /\ invites[i].toUserId = uid
                     /\ invites[i].circleId # None
                     /\ invites[i].status = "pending"}

\* C2: once a fetch cycle for user U has completed, inviteCount is the number of
\* invites received by U that carry a circleId and are pending.
C2_InviteCountIsPendingCircleInvites ==
  lastOp.op = "Complete" => inviteCount = Cardinality(CountingInvites(lastOp.uid))

\* A cycle for U completed with one invite counted while U's other invite, pending
\* but with no circleId, was left out.
C2_Witness ==
  /\ lastOp.op = "Complete"
  /\ inviteCount = 1
  /\ \E i \in InviteIds : /\ invites[i].toUserId = lastOp.uid
                          /\ invites[i].circleId = None
                          /\ invites[i].status = "pending"

\* C3: a step in which a fetch of a cycle fails leaves inviteCount,
\* revealRequestCount and goalSuggestionCount as they were, and the cycle is gone.
C3_FailedCycleKeepsCounts ==
  [][(lastOp'.op = "FetchFail" /\ cycles' # cycles)
       => /\ UNCHANGED << inviteCount, revealRequestCount, goalSuggestionCount >>
          /\ Len(cycles') = Len(cycles) - 1]_vars

\* A fetch failed after the two other fetches of its cycle had succeeded, with
\* counts of an earlier cycle on display.
C3_Witness ==
  /\ lastOp.op = "FetchFail"
  /\ lastOp.n = 2
  /\ inviteCount > 0
  /\ goalSuggestionCount > 0

\* C10: while loading is true no notification fetch is started, whatever user holds.
C10_NoFetchWhileLoading ==
  [][loading' => Len(cycles') <= Len(cycles)]_vars

\* ------------------------------------------------------------------ provisioning claims
OwnedCircles(uid) == {n \in 1 .. Len(circles) : circles[n].ownerId = uid}

\* The user document written by createNewUserData and one circle per default
\* kind, owned by uid with uid as its only member, exist.
AllProvisioned(uid) ==
  /\ users[uid].profile
  /\ Cardinality(OwnedCircles(uid)) = Len(defaultCircles)
  /\ \A k \in 1 .. Len(defaultCircles) :
       \E n \in OwnedCircles(uid) :
         circles[n].name = defaultCircles[k] /\ circles[n].memberIds = << uid >>

NoneProvisioned(uid) == ~users[uid].profile /\ OwnedCircles(uid) = {}

\* C4: when processInvitesForNewUser fails, the user document and the default
\* circles are committed all the same.
C4_InviteFailureKeepsBatch ==
  (pc = "threw" /\ lastOp.op = "ProcessInvitesFail") => AllProvisioned(fbUser.uid)

\* C5: in every reachable store state the user document written for the new id
\* and its default circles either all exist or none of them exists.
C5_UserAndCirclesAllOrNothing ==
  fbUser # NoFbUser => (AllProvisioned(fbUser.uid) \/ NoneProvisioned(fbUser.uid))

\* The batch has been committed into a user document that already held a stripeId.
C5_Witness ==
  /\ pc = "done"
  /\ lastOp.op = "Commit"
  /\ users[fbUser.uid].stripeId
  /\ AllProvisioned(fbUser.uid)

\* C6: after createNewUserData completes for an identity with email e and one
\* pending invite addressed to e, the user document and 4 default circles owned
\* by the new id exist and that invite's toUserId is the new id.
C6_ProvisionedWithInvite ==
  (pc = "done" /\ fbUser.email # None /\ Cardinality(PendingInvitesFor(fbUser.email)) = 1)
    => /\ users[fbUser.uid].profile
       /\ Cardinality(OwnedCircles(fbUser.uid)) = 4
       /\ \A i \in PendingInvitesFor(fbUser.email) : invites[i].toUserId = fbUser.uid

\* Provisioning completed with exactly one pending invite addressed to the email,
\* next to an invite for another address that stays unclaimed.
C6_Witness ==
  /\ pc = "done"
  /\ fbUser.email = "a@x.com"
  /\ Cardinality(PendingInvitesFor("a@x.com")) = 1
  /\ \E i \in InviteIds : invites[i].toEmail = "b@x.com" /\ invites[i].toUserId = None
  /\ \E i \in InviteIds : invites[i].toEmail = "a@x.com" /\ invites[i].toUserId = "u1"

\* ------------------------------------------------------------------ circle page claims
\* C7: a removal is triggered only by the circle's owner and never on the owner's
\* own row, and after it the removed member is no longer in the member-id list.
C7_OnlyOwnerRemoves ==
  [][/\ (memberToRemove' # None /\ memberToRemove' # memberToRemove)
          => /\ user.id = ThisCircle.ownerId
             /\ memberToRemove' # user.id
     /\ (circles' # circles)
          => /\ user.id = ThisCircle.ownerId
             /\ \E m \in Members(ThisCircle) \ {user.id} :
                  /\ m \notin Members(circles'[1])
                  /\ Members(circles'[1]) = Members(ThisCircle) \ {m}]_vars

\* The owner has removed a member, who is absent from the list read next.
C7_Witness ==
  /\ lastOp.op = "ConfirmRemove"
  /\ user.id = ThisCircle.ownerId
  /\ lastOp.uid \notin Members(ThisCircle)
  /\ Len(ThisCircle.memberIds) = 2

\* C8: handleSend with no trait selected writes nothing and changes no state; no
\* send is ever in flight without a trait; the document a send writes is pending
\* and carries the trait that was selected.
C8_NoSendWithoutTrait ==
  /\ [][(lastOp'.op = "handleSend" /\ selectedTrait = "")
          => UNCHANGED << layoutState, storeState, provisionState, pageState >>]_vars
  /\ [](isSubmitting => onSendArg \in familyGoalTraits)
  /\ [][(isSubmitting' /\ ~isSubmitting) => onSendArg' = selectedTrait]_vars
  /\ [][(familyGoals' # familyGoals)
          => /\ Len(familyGoals') = Len(familyGoals) + 1
             /\ familyGoals'[Len(familyGoals')].status = "pending"
             /\ familyGoals'[Len(familyGoals')].trait = onSendArg
             /\ onSendArg \in familyGoalTraits
             /\ \A n \in 1 .. Len(familyGoals) : familyGoals'[n] = familyGoals[n]]_vars

\* A send with trait "Patience" has completed and its pending goal is in the store.
C8_Witness ==
  /\ lastOp.op = "onSendDone"
  /\ lastOp.uid = "Patience"
  /\ familyGoals # << >>
  /\ familyGoals[Len(familyGoals)].trait = "Patience"
  /\ familyGoals[Len(familyGoals)].status = "pending"

\* C9: the dialog opens with no trait selected every time (also after an earlier
\* cancel or send), a close before submit writes no FamilyGoal, and every
\* submitting state is eventually followed by closed.
C9_DialogStateMachine ==
  /\ [][(~isOpen /\ isOpen') => selectedTrait' = ""]_vars
  /\ [][(isOpen /\ ~isOpen' /\ ~isSubmitting) => familyGoals' = familyGoals]_vars
  /\ (isSubmitting ~> ~isOpen)

\* ------------------------------------------------------------------ session claims
ResolvedNoUser == ~loading /\ user = NoUser

\* C11 as stated: whenever the session is resolved with no authenticated user,
\* also after handleLogout, the navigation the user ends up with is the login
\* destination.
C11_ResolvedNoUserEndsAtLogin ==
  ResolvedNoUser => pushed = "/login"

\* C11 as amended: every change of the session state to resolved with no user
\* issues router.push('/login'); with no user the last navigation issued is that
\* redirect or the "/" of handleLogout, whichever came last.
C11_GuardRedirectsOnChange ==
  /\ (lastOp.op = "UserChange" /\ ResolvedNoUser) => pushed = "/login"
  /\ ResolvedNoUser => pushed \in {"/login", "/"}

\* handleLogout is still awaiting signOut when useUser() reports the sign-out
\* and the guard redirects to the login destination.
C11_Witness ==
  /\ signingOut
  /\ lastOp.op = "UserChange"
  /\ ResolvedNoUser
  /\ pushed = "/login"

\* ------------------------------------------------------------------ superseded cycles
\* The three counts the continuation of a cycle for c writes.
CycleCounts(c) ==
  << Cardinality(CountingInvites(c.uid)),
     IF c.isPremium THEN getRevealRequestsForUser(revealRequests, c.uid) ELSE 0,
     getFamilyGoalsForUser(familyGoals, c.uid) >>

\* C12: a user or route change leaves every cycle in flight as it was, and a
\* cycle that completes writes its own results to the three counts whatever
\* newer cycles were started or have completed since it began.
C12_SupersededCycleNotAborted ==
  [][ /\ lastOp'.op \in {"UserChange", "Navigate"} =>
           /\ Len(cycles') >= Len(cycles)
           /\ \A j \in 1 .. Len(cycles) : cycles'[j] = cycles[j]
      /\ lastOp'.op = "Complete" =>
           \E i \in 1 .. Len(cycles) :
              /\ cycles' = RemoveAt(cycles, i)
              /\ lastOp'.uid = cycles[i].uid
              /\ << inviteCount', revealRequestCount', goalSuggestionCount' >> = CycleCounts(cycles[i])
    ]_vars

\* The cycle started for u1 completed after the newer cycle started for u2: u2 is
\* the current user and the counts shown are u1's.
C12_Witness ==
  /\ lastOp = Op("Complete", "u1", 2)
  /\ user.id = "u2"
  /\ cycles = << >>
  /\ inviteCount = 1
  /\ goalSuggestionCount = MaxDocs

====
